---- MODULE Spec2Model ----
(***************************************************************************)
(* Model of password.py: a host/network information report that is         *)
(* captured in an in-memory buffer and posted to a webhook.                *)
(*                                                                         *)
(* Text values are sequences of chunks (strings); a chunk is either a      *)
(* whitespace character or a run of non-whitespace characters, so that     *)
(* str.strip, truthiness of a str and json.loads can be computed.          *)
(***************************************************************************)
EXTENDS Integers, Sequences, FiniteSets

VARIABLES
    pc,              \* position of the interpreter (source line of the next step)
    name_main,       \* __name__ == "__main__"
    ret_to,          \* where the running main() returns to
    main_calls,      \* number of invocations of main() so far
    probes,          \* number of invocations of get_local_info() so far
    lookups,         \* number of invocations of get_public_ip() so far
    sys_stdout,      \* what sys.stdout is bound to: "buffer" or "console"
    terminal_output, \* the io.StringIO buffer, as a sequence of lines
    console,         \* number of lines written to the real stdout
    stderr,          \* number of lines the last step wrote to sys.stderr
    output,          \* module-level `output` (terminal_output.getvalue())
    webhook_text,    \* the `text` argument of the send_to_webhook call
    posts,           \* number of requests.post calls
    post_outcome,    \* outcome of the last requests.post
    exit_status,     \* "running", or the exit status "0" or "1"
    hostname,        \* get_local_info: hostname
    local_ip,        \* get_local_info: local_ip
    sock,            \* get_local_info: socket s: "none", "open", "closed"
    exc,             \* exception in flight ("none" when there is none)
    raised_in,       \* function an uncaught exception escaped from
    url,             \* fetch_data_with_retry: url
    attempt,         \* fetch_data_with_retry: loop variable
    outcomes,        \* fetch_data_with_retry: outcome of each urlopen of this call
    sleeps,          \* fetch_data_with_retry: the time.sleep delays of this call
    result,          \* fetch_data_with_retry: return value
    geo_requests,    \* requests sent to the geolocation service by the running main()
    ip_data,         \* get_public_ip: ip_data
    location_data,   \* get_geolocation: location_data
    m_hostname,      \* main: hostname
    m_local_ip,      \* main: local_ip
    public_ip,       \* main: public_ip
    geolocation      \* main: geolocation

vars == << pc, name_main, ret_to, main_calls, probes, lookups, sys_stdout,
           terminal_output, console, stderr, output, webhook_text, posts,
           post_outcome, exit_status, hostname, local_ip, sock, exc, raised_in,
           url, attempt, outcomes, sleeps, result, geo_requests, ip_data,
           location_data, m_hostname, m_local_ip, public_ip, geolocation >>

topVars   == << name_main, sys_stdout, output, webhook_text, posts, post_outcome >>
localVars == << hostname, local_ip, sock >>
fetchVars == << url, attempt, outcomes, sleeps, result, geo_requests >>
mainVars  == << ip_data, location_data, m_hostname, m_local_ip, public_ip, geolocation >>
countVars == << main_calls, probes, lookups >>
outVars   == << terminal_output, console >>

----------------------------------------------------------------------------
(* Bounds and program constants *)

MaxPad == 1              \* most whitespace chunks on either side of a response body

MAX_RETRIES == 3
INITIAL_DELAY == 1

PUBLIC_IP_SERVICE_URL == "https://api.ipify.org?format=text"
GEOLOCATION_SERVICE_URL == "https://ipinfo.io/json"

----------------------------------------------------------------------------
(* Text *)

Whitespace == {"\n"}

RECURSIVE LStrip(_)
LStrip(t) == IF t # <<>> /\ Head(t) \in Whitespace THEN LStrip(Tail(t)) ELSE t

RECURSIVE RStrip(_)
RStrip(t) ==
    IF t # <<>> /\ t[Len(t)] \in Whitespace THEN RStrip(SubSeq(t, 1, Len(t) - 1)) ELSE t

\* str.strip()
Strip(t) == RStrip(LStrip(t))

\* truthiness of a fetch result: None and "" are falsy
Truthy(r) == r.ok /\ r.body # <<>>

None == [ok |-> FALSE, body |-> <<>>]
Some(b) == [ok |-> TRUE, body |-> b]

NA == <<"N/A">>
ConnectionFailed == <<"N/A (Connection Failed)">>
RequiresPublicIp == <<"N/A (Requires Public IP)">>
InvalidResponse == <<"N/A (Invalid response from location service)">>
LookupFailed == <<"N/A (Location Lookup Failed)">>

\* n whitespace chunks
Pad(n) == [i \in 1..n |-> "\n"]
\* the texts that are t with at most MaxPad whitespace chunks on either side
Padded(t) == { Pad(i) \o t \o Pad(j) : i \in 0..MaxPad, j \in 0..MaxPad }

----------------------------------------------------------------------------
(* The environment: what the OS and the remote services may answer *)

\* socket.gethostname(): an ordinary name, or a name whose single label has
\* 64 characters (HOST_NAME_MAX), which the idna codec refuses to encode
OrdinaryHost == <<"pc">>
LongLabelHost == <<"label-of-64-characters">>
Hostnames == {OrdinaryHost, LongLabelHost}

LanIp == <<"192.168.1.10">>
Loopback == <<"127.0.0.1">>

\* socket.gethostbyname(name): the outcomes it can have for a name. A str
\* argument is encoded with the idna codec first, which raises UnicodeError
\* (a ValueError, not an OSError) for a label longer than 63 characters;
\* otherwise the resolver answers or raises socket.gaierror (an OSError).
GetHostByName(name) ==
    IF name = LongLabelHost
    THEN {[raises |-> "UnicodeError", value |-> <<>>]}
    ELSE {[raises |-> "none", value |-> a] : a \in {LanIp, Loopback}}
         \cup {[raises |-> "OSError", value |-> <<>>]}

\* `except socket.error` (socket.error is OSError)
IsSocketError(e) == e = "OSError"

\* bodies the IP echo service may send
IpBodies == Padded(<<>>) \cup Padded(<<"203.0.113.5">>) \cup {ConnectionFailed}

\* bodies the geolocation service may send
Fields == {"city", "region", "country"}
FieldOrder == <<"city", "region", "country">>
InSet(S, x) == x \in S
ObjBody(S) == <<"{">> \o SelectSeq(FieldOrder, LAMBDA f : InSet(S, f)) \o <<"}">>
GeoBodies ==
    Padded(<<>>) \cup {<<"{", "city">>, <<"[1]">>} \cup {ObjBody(S) : S \in SUBSET Fields}
        \cup Padded(ObjBody(Fields))

Bodies(u) == IF u = PUBLIC_IP_SERVICE_URL THEN IpBodies ELSE GeoBodies

\* the value the service sends for a field that is present
GeoValue(f) ==
    CASE f = "city" -> "Paris"
      [] f = "region" -> "Ile-de-France"
      [] f = "country" -> "FR"

\* outcomes of one urlopen(...).read().decode(...)
FetchOutcomes == {"ok", "URLError", "Exception"}

\* outcomes of requests.post(webhook_url, json=payload, timeout=3)
PostOutcomes == {"ok", "ConnectionError", "Timeout", "MissingSchema"}

----------------------------------------------------------------------------
(* json.loads and get_geolocation's formatting *)

\* json.loads(text): a dict (with the keys it holds), another JSON value,
\* or JSONDecodeError
JsonLoads(text) ==
    LET t == Strip(text) IN
    IF /\ Len(t) >= 2
       /\ t[1] = "{"
       /\ t[Len(t)] = "}"
       /\ \A i \in 2..(Len(t) - 1) : t[i] \in Fields
    THEN [type |-> "dict", keys |-> {t[i] : i \in 2..(Len(t) - 1)}]
    ELSE IF t = <<"[1]">>
    THEN [type |-> "list", keys |-> {}]
    ELSE [type |-> "JSONDecodeError", keys |-> {}]

\* a get() that falls back to the default unless every field is present
DictGetAllOrNothing(data, key, default) ==
    IF data.keys = Fields THEN GeoValue(key) ELSE default

\* data.get(key, default)
DictGet(data, key, default) ==
    IF key \in data.keys THEN GeoValue(key) ELSE default

\* lines 102-115 of get_geolocation, given location_data
ParseLocation(data_text) ==
    IF Truthy(data_text)
    THEN LET data == JsonLoads(data_text.body) IN
         IF data.type = "JSONDecodeError"
         THEN [raises |-> "none", value |-> InvalidResponse]
         ELSE IF data.type # "dict"
         THEN [raises |-> "AttributeError", value |-> <<>>]
         ELSE [raises |-> "none",
               value |-> << DictGet(data, "city", "Unknown City"), ", ",
                            DictGet(data, "region", "Unknown Region"), ", ",
                            DictGet(data, "country", "Unknown Country") >>]
    ELSE [raises |-> "none", value |-> LookupFailed]

\* a get_public_ip that returns the body as it came
PublicIpOfUntrimmed(data_text) ==
    IF Truthy(data_text) THEN data_text.body ELSE ConnectionFailed

\* lines 86-89 of get_public_ip, given ip_data
PublicIpOf(data_text) ==
    IF Truthy(data_text) THEN Strip(data_text.body) ELSE ConnectionFailed

\* a backoff that does not grow
DelayConstant(a) == INITIAL_DELAY

\* line 74: delay = INITIAL_DELAY * (2 ** attempt)
Delay(a) == INITIAL_DELAY * (2 ^ a)

----------------------------------------------------------------------------
(* The report *)

Banner == <<"--------------------------------------------------">>
Header == << Banner, <<"        Network and Host Information Utility        ">>, Banner,
             <<"\n[LOCAL NETWORK INFORMATION (No external calls)]">> >>
LocalLines(h, ip) ==
    << <<"Desktop Name (Hostname): ">> \o h, <<"Local IP Address (LAN):  ">> \o ip,
       <<"\n[PUBLIC NETWORK INFORMATION (Requires external calls)]">> >>
PublicIpLine(ip) == << <<"Public IP Address (WAN): ">> \o ip >>
LocationLine(loc) == << <<"Estimated Location:      ">> \o loc >>
NoPublicIpLine == << <<"Estimated Location:      N/A (Failed to retrieve Public IP)">> >>
Footer == << Banner, <<"\n[Image of network topology]">> >>

\* print(...): to whatever sys.stdout is bound to
WriteStdout(lines) ==
    /\ terminal_output' =
           IF sys_stdout = "buffer" THEN terminal_output \o lines ELSE terminal_output
    /\ console' = IF sys_stdout = "buffer" THEN console ELSE console + Len(lines)

----------------------------------------------------------------------------
(* The state after lines 11-13: capture started, nothing run yet *)

Init ==
    /\ pc = "L148"
    /\ name_main \in BOOLEAN
    /\ ret_to = "none"
    /\ main_calls = 0 /\ probes = 0 /\ lookups = 0
    /\ sys_stdout = "buffer"
    /\ terminal_output = <<>>
    /\ console = 0 /\ stderr = 0
    /\ output = <<>> /\ webhook_text = <<>>
    /\ posts = 0 /\ post_outcome = "none"
    /\ exit_status = "running"
    /\ hostname = NA /\ local_ip = NA /\ sock = "none"
    /\ exc = "none" /\ raised_in = "none"
    /\ url = "none" /\ attempt = 0 /\ outcomes = <<>> /\ sleeps = <<>>
    /\ result = None /\ geo_requests = 0
    /\ ip_data = None /\ location_data = None
    /\ m_hostname = <<>> /\ m_local_ip = <<>>
    /\ public_ip = <<>> /\ geolocation = <<>>

----------------------------------------------------------------------------
(* Module top level *)

\* lines 148-154: the entry-point guard, which calls main() under __main__
EntryGuard ==
    /\ pc = "L148"
    /\ IF name_main
       THEN pc' = "L121" /\ ret_to' = "L158"
       ELSE pc' = "L158" /\ ret_to' = ret_to
    /\ stderr' = 0
    /\ UNCHANGED << exit_status, exc, raised_in, topVars, countVars,
                    outVars, localVars, fetchVars, mainVars >>

\* line 158: the unconditional call of main()
SecondCall ==
    /\ pc = "L158"
    /\ pc' = "L121" /\ ret_to' = "L161"
    /\ stderr' = 0
    /\ UNCHANGED << exit_status, exc, raised_in, topVars, countVars,
                    outVars, localVars, fetchVars, mainVars >>

\* lines 161-162: restore sys.stdout and read the buffer
StopCapture ==
    /\ pc = "L161"
    /\ sys_stdout' = "console"
    /\ output' = terminal_output
    /\ pc' = "L178"
    /\ stderr' = 0
    /\ UNCHANGED << ret_to, exit_status, exc, raised_in, name_main,
                    webhook_text, posts, post_outcome, countVars, outVars,
                    localVars, fetchVars, mainVars >>

\* a notifier that lets the failure of the POST escape
SendToWebhookRaising ==
    /\ pc = "L178"
    /\ webhook_text' = output
    /\ posts' = posts + 1
    /\ \E o \in PostOutcomes :
        /\ post_outcome' = o
        /\ IF o = "ok"
           THEN pc' = "L182" /\ UNCHANGED << exc, raised_in >>
           ELSE pc' = "uncaught" /\ exc' = o /\ raised_in' = "send_to_webhook"
    /\ stderr' = 0
    /\ UNCHANGED << ret_to, exit_status, name_main, sys_stdout, output,
                    countVars, outVars, localVars, fetchVars, mainVars >>

\* lines 165-178: send_to_webhook(output): one requests.post, whose failure
\* the bare except swallows
SendToWebhook ==
    /\ pc = "L178"
    /\ webhook_text' = output
    /\ posts' = posts + 1
    /\ \E o \in PostOutcomes : post_outcome' = o
    /\ pc' = "L182"
    /\ stderr' = 0
    /\ UNCHANGED << ret_to, exit_status, exc, raised_in, name_main,
                    sys_stdout, output, countVars, outVars, localVars,
                    fetchVars, mainVars >>

\* lines 182-184: the module ends and the interpreter exits with status 0
ModuleEnd ==
    /\ pc = "L182"
    /\ exit_status' = "0"
    /\ pc' = "done"
    /\ stderr' = 0
    /\ UNCHANGED << ret_to, exc, raised_in, topVars, countVars, outVars,
                    localVars, fetchVars, mainVars >>

\* an exception nobody caught: traceback on stderr, exit status 1
Crash ==
    /\ pc = "uncaught"
    /\ stderr' = 1
    /\ exit_status' = "1"
    /\ pc' = "crashed"
    /\ UNCHANGED << ret_to, exc, raised_in, topVars, countVars, outVars,
                    localVars, fetchVars, mainVars >>

----------------------------------------------------------------------------
(* main and get_local_info *)

\* lines 121-126 and 32-33: main() prints the header and enters get_local_info()
MainStart ==
    /\ pc = "L121"
    /\ main_calls' = main_calls + 1
    /\ WriteStdout(Header)
    /\ probes' = probes + 1
    /\ hostname' = NA /\ local_ip' = NA /\ sock' = "none"
    /\ geo_requests' = 0
    /\ pc' = "L37"
    /\ stderr' = 0
    /\ UNCHANGED << ret_to, exit_status, exc, raised_in, topVars, lookups,
                    url, attempt, outcomes, sleeps, result, mainVars >>

\* line 37: hostname = socket.gethostname()
GetHostName ==
    /\ pc = "L37"
    /\ \/ \E h \in Hostnames : hostname' = h /\ pc' = "L40" /\ exc' = exc
       \/ hostname' = hostname /\ pc' = "L53" /\ exc' = "OSError"
    /\ stderr' = 0
    /\ UNCHANGED << ret_to, exit_status, raised_in, topVars, countVars,
                    outVars, local_ip, sock, fetchVars, mainVars >>

\* line 40: s = socket.socket(AF_INET, SOCK_DGRAM)
CreateSocket ==
    /\ pc = "L40"
    /\ \/ sock' = "open" /\ pc' = "L44" /\ exc' = exc
       \/ sock' = sock /\ pc' = "L53" /\ exc' = "OSError"
    /\ stderr' = 0
    /\ UNCHANGED << ret_to, exit_status, raised_in, topVars, countVars,
                    outVars, hostname, local_ip, fetchVars, mainVars >>

\* line 44: s.connect(('8.8.8.8', 1)); a failure goes to the handler of line 46
Connect ==
    /\ pc = "L44"
    /\ pc' \in {"L45", "L48"}
    /\ stderr' = 0
    /\ UNCHANGED << ret_to, exit_status, exc, raised_in, topVars,
                    countVars, outVars, localVars, fetchVars, mainVars >>

\* line 45: local_ip = s.getsockname()[0]; a failure goes to the handler of line 46
GetSockName ==
    /\ pc = "L45"
    /\ \/ local_ip' = LanIp /\ pc' = "L50"
       \/ local_ip' = local_ip /\ pc' = "L48"
    /\ stderr' = 0
    /\ UNCHANGED << ret_to, exit_status, exc, raised_in, topVars,
                    countVars, outVars, hostname, sock, fetchVars, mainVars >>

\* lines 46-48: local_ip = socket.gethostbyname(hostname), inside the handler
Fallback ==
    /\ pc = "L48"
    /\ \E r \in GetHostByName(hostname) :
        /\ local_ip' = IF r.raises = "none" THEN r.value ELSE local_ip
        /\ exc' = r.raises
    /\ pc' = "L50"
    /\ stderr' = 0
    /\ UNCHANGED << ret_to, exit_status, raised_in, topVars, countVars,
                    outVars, hostname, sock, fetchVars, mainVars >>

\* where control goes after the finally clause, with exception e in flight:
\* line 52, the handler of line 53, or out of get_local_info
AfterFinally(e) ==
    IF e = "none" THEN "L52" ELSE IF IsSocketError(e) THEN "L53" ELSE "uncaught"

\* a cleanup that is skipped when the fallback raised
FinallyLeaking ==
    /\ pc = "L50"
    /\ sock' = IF exc = "none" THEN "closed" ELSE sock
    /\ pc' = AfterFinally(exc)
    /\ raised_in' = IF AfterFinally(exc) = "uncaught" THEN "get_local_info" ELSE raised_in
    /\ stderr' = 0
    /\ UNCHANGED << ret_to, exit_status, exc, topVars, countVars, outVars,
                    hostname, local_ip, fetchVars, mainVars >>

\* lines 49-50: finally: s.close()
Finally ==
    /\ pc = "L50"
    /\ sock' = "closed"
    /\ pc' = AfterFinally(exc)
    /\ raised_in' = IF AfterFinally(exc) = "uncaught" THEN "get_local_info" ELSE raised_in
    /\ stderr' = 0
    /\ UNCHANGED << ret_to, exit_status, exc, topVars, countVars, outVars,
                    hostname, local_ip, fetchVars, mainVars >>

\* line 52 and line 126: return hostname, local_ip
LocalReturn ==
    /\ pc = "L52"
    /\ m_hostname' = hostname /\ m_local_ip' = local_ip
    /\ pc' = "L127"
    /\ stderr' = 0
    /\ UNCHANGED << ret_to, exit_status, exc, raised_in, topVars,
                    countVars, outVars, localVars, fetchVars, ip_data,
                    location_data, public_ip, geolocation >>

\* lines 53-55 and line 126: except socket.error: report on stderr,
\* return hostname, "N/A"
LocalExcept ==
    /\ pc = "L53"
    /\ IsSocketError(exc)
    /\ stderr' = 1
    /\ exc' = "none"
    /\ m_hostname' = hostname /\ m_local_ip' = NA
    /\ pc' = "L127"
    /\ UNCHANGED << ret_to, exit_status, raised_in, topVars, countVars, outVars,
                    localVars, fetchVars, ip_data, location_data, public_ip,
                    geolocation >>

\* lines 127-133 and 85: print the local section, enter get_public_ip(),
\* which calls fetch_data_with_retry(PUBLIC_IP_SERVICE_URL)
MainPrintLocal ==
    /\ pc = "L127"
    /\ WriteStdout(LocalLines(m_hostname, m_local_ip))
    /\ lookups' = lookups + 1
    /\ url' = PUBLIC_IP_SERVICE_URL
    /\ attempt' = 0 /\ outcomes' = <<>> /\ sleeps' = <<>> /\ result' = None
    /\ pc' = "L62"
    /\ stderr' = 0
    /\ UNCHANGED << ret_to, exit_status, exc, raised_in, topVars,
                    main_calls, probes, localVars, geo_requests, mainVars >>

----------------------------------------------------------------------------
(* fetch_data_with_retry *)

\* where fetch_data_with_retry(u) returns to: get_public_ip or get_geolocation
ReturnSite(u) == IF u = PUBLIC_IP_SERVICE_URL THEN "L85" ELSE "L100"

\* lines 61-71: one iteration's urlopen: the body is returned, or the
\* failure is reported on stderr
FetchAttempt ==
    /\ pc = "L62"
    /\ geo_requests' = IF url = GEOLOCATION_SERVICE_URL THEN geo_requests + 1 ELSE geo_requests
    /\ \E o \in FetchOutcomes :
        /\ outcomes' = Append(outcomes, o)
        /\ IF o = "ok"
           THEN /\ \E b \in Bodies(url) : result' = Some(b)
                /\ pc' = ReturnSite(url)
                /\ stderr' = 0
           ELSE /\ result' = result
                /\ stderr' = 1
                /\ pc' = IF attempt < MAX_RETRIES - 1 THEN "L74" ELSE "L78"
    /\ UNCHANGED << ret_to, exit_status, exc, raised_in, topVars, countVars,
                    outVars, localVars, url, attempt, sleeps, mainVars >>

\* lines 73-76: not the last attempt: sleep INITIAL_DELAY * 2 ** attempt,
\* then the next iteration
FetchBackoff ==
    /\ pc = "L74"
    /\ sleeps' = Append(sleeps, Delay(attempt))
    /\ stderr' = 1
    /\ attempt' = attempt + 1
    /\ pc' = "L62"
    /\ UNCHANGED << ret_to, exit_status, exc, raised_in, topVars, countVars,
                    outVars, localVars, url, outcomes, result, geo_requests, mainVars >>

\* line 78: the loop is over: return None
FetchExhausted ==
    /\ pc = "L78"
    /\ result' = None
    /\ pc' = ReturnSite(url)
    /\ stderr' = 0
    /\ UNCHANGED << ret_to, exit_status, exc, raised_in, topVars,
                    countVars, outVars, localVars, url, attempt, outcomes,
                    sleeps, geo_requests, mainVars >>

----------------------------------------------------------------------------
(* get_public_ip, get_geolocation and the rest of main *)

\* lines 85-89 and 133: ip_data is what the fetch returned (its locals are
\* gone); get_public_ip() returns and main binds public_ip
PublicIpReturn ==
    /\ pc = "L85"
    /\ ip_data' = result
    /\ public_ip' = PublicIpOf(result)
    /\ url' = "none" /\ attempt' = 0 /\ outcomes' = <<>> /\ sleeps' = <<>>
    /\ result' = None
    /\ pc' = "L134"
    /\ stderr' = 0
    /\ UNCHANGED << ret_to, exit_status, exc, raised_in, topVars,
                    countVars, outVars, localVars, geo_requests, location_data,
                    m_hostname, m_local_ip, geolocation >>

\* line 134: main prints the WAN IP; the locals of get_public_ip are gone
MainPrintPublicIp ==
    /\ pc = "L134"
    /\ WriteStdout(PublicIpLine(public_ip))
    /\ ip_data' = None
    /\ pc' = "L137"
    /\ stderr' = 0
    /\ UNCHANGED << ret_to, exit_status, exc, raised_in, topVars,
                    countVars, localVars, fetchVars, location_data, m_hostname,
                    m_local_ip, public_ip, geolocation >>

\* lines 137-143: main looks the location up unless public_ip is the sentinel
GeoGuard ==
    /\ pc = "L137"
    /\ IF public_ip # ConnectionFailed
       THEN pc' = "L96" /\ UNCHANGED outVars
       ELSE pc' = "L145" /\ WriteStdout(NoPublicIpLine)
    /\ stderr' = 0
    /\ UNCHANGED << ret_to, exit_status, exc, raised_in, topVars,
                    countVars, localVars, fetchVars, mainVars >>

\* lines 96-100: get_geolocation(public_ip): the guard, then
\* fetch_data_with_retry(GEOLOCATION_SERVICE_URL)
GeoEntry ==
    /\ pc = "L96"
    /\ IF public_ip = ConnectionFailed
       THEN /\ geolocation' = RequiresPublicIp
            /\ pc' = "L141"
            /\ UNCHANGED << url, attempt, outcomes, sleeps, result >>
       ELSE /\ url' = GEOLOCATION_SERVICE_URL
            /\ attempt' = 0 /\ outcomes' = <<>> /\ sleeps' = <<>> /\ result' = None
            /\ pc' = "L62"
            /\ geolocation' = geolocation
    /\ stderr' = 0
    /\ UNCHANGED << ret_to, exit_status, exc, raised_in, topVars,
                    countVars, outVars, localVars, geo_requests, ip_data,
                    location_data, m_hostname, m_local_ip, public_ip >>

\* lines 100-115: location_data is what the fetch returned (its locals are
\* gone); get_geolocation parses it and returns the location, or an
\* exception other than JSONDecodeError leaves it
GeoParse ==
    /\ pc = "L100"
    /\ location_data' = result
    /\ url' = "none" /\ attempt' = 0 /\ outcomes' = <<>> /\ sleeps' = <<>>
    /\ result' = None
    /\ LET r == ParseLocation(result) IN
         IF r.raises = "none"
         THEN /\ geolocation' = r.value
              /\ pc' = "L141"
              /\ UNCHANGED << exc, raised_in >>
         ELSE /\ geolocation' = geolocation
              /\ exc' = r.raises
              /\ raised_in' = "get_geolocation"
              /\ pc' = "uncaught"
    /\ stderr' = 0
    /\ UNCHANGED << ret_to, exit_status, topVars, countVars, outVars,
                    localVars, geo_requests, ip_data, m_hostname, m_local_ip,
                    public_ip >>

\* lines 140-141: main prints the location; the locals of get_geolocation
\* are gone
MainPrintLocation ==
    /\ pc = "L141"
    /\ WriteStdout(LocationLine(geolocation))
    /\ location_data' = None
    /\ pc' = "L145"
    /\ stderr' = 0
    /\ UNCHANGED << ret_to, exit_status, exc, raised_in, topVars,
                    countVars, localVars, fetchVars, ip_data, m_hostname,
                    m_local_ip, public_ip, geolocation >>

\* lines 145-146: main prints the footer and returns to its caller; the
\* locals of main and of the functions it called are gone
MainFinish ==
    /\ pc = "L145"
    /\ WriteStdout(Footer)
    /\ pc' = ret_to
    /\ ret_to' = "none"
    /\ hostname' = NA /\ local_ip' = NA /\ sock' = "none"
    /\ url' = "none" /\ attempt' = 0 /\ outcomes' = <<>> /\ sleeps' = <<>>
    /\ result' = None /\ geo_requests' = 0
    /\ ip_data' = None /\ location_data' = None
    /\ m_hostname' = <<>> /\ m_local_ip' = <<>>
    /\ public_ip' = <<>> /\ geolocation' = <<>>
    /\ stderr' = 0
    /\ UNCHANGED << exit_status, exc, raised_in, topVars, countVars >>

----------------------------------------------------------------------------

Next ==
    \/ EntryGuard \/ SecondCall \/ StopCapture \/ SendToWebhook \/ ModuleEnd
    \/ Crash
    \/ MainStart \/ GetHostName \/ CreateSocket \/ Connect \/ GetSockName
    \/ Fallback \/ Finally \/ LocalReturn \/ LocalExcept \/ MainPrintLocal
    \/ FetchAttempt \/ FetchBackoff \/ FetchExhausted
    \/ PublicIpReturn \/ MainPrintPublicIp \/ GeoGuard \/ GeoEntry \/ GeoParse
    \/ MainPrintLocation \/ MainFinish

Spec == Init /\ [][Next]_vars

----------------------------------------------------------------------------
(* Properties *)

\* fetch_data_with_retry has just returned to its caller
FetchReturned == pc \in {"L85", "L100"}
\* every urlopen of the call failed
AllFailed == \A i \in 1..Len(outcomes) : outcomes[i] # "ok"

\* C1: a call of fetch_data_with_retry in which every attempt fails makes
\* exactly MAX_RETRIES attempts, sleeps INITIAL_DELAY * 2^i between attempt i
\* and attempt i+1 (1 s, then 2 s), does not sleep after the last attempt
\* and returns None.
C1_RetryPolicy ==
    /\ \A i \in 1..Len(sleeps) : sleeps[i] = INITIAL_DELAY * 2 ^ (i - 1)
    /\ pc = "L62" => Len(sleeps) = Len(outcomes)
    /\ (FetchReturned /\ AllFailed) =>
          /\ Len(outcomes) = MAX_RETRIES
          /\ sleeps = <<1, 2>>
          /\ result = None

C1_Witness ==
    /\ pc = "L100"
    /\ outcomes = <<"URLError", "Exception", "URLError">>

\* C2: a request goes to the geolocation service only when the WAN IP lookup
\* produced a resolved public IP: none goes when the fetch was exhausted or
\* the body was empty or whitespace only.
C2_GeoOnlyAfterResolvedIp ==
    geo_requests > 0 => (public_ip # ConnectionFailed /\ public_ip # <<>>)

\* C3: no error is fatal: the program never dies of an uncaught exception
\* and never exits with a status other than 0.
C3_NoFatalError ==
    /\ pc \notin {"uncaught", "crashed"}
    /\ exit_status \in {"running", "0"}

\* C4: get_local_info never raises to its caller; it returns a pair of
\* strings, which after an error that reached its handler is ("N/A", "N/A")
\* or (hostname, "N/A").
C4_LocalInfoNeverRaises ==
    /\ ~(pc \in {"uncaught", "crashed"} /\ raised_in = "get_local_info")
    /\ pc = "L127" =>
          /\ m_hostname \in Hostnames \cup {NA}
          /\ m_local_ip \in {LanIp, Loopback, NA}
          /\ m_hostname = NA => m_local_ip = NA

\* the steps of get_local_info during which the socket s exists
SocketInUse == pc \in {"L44", "L45", "L48", "L50"}

\* C5: the socket get_local_info opened is closed once get_local_info is
\* left, on every exit path.
C5_SocketClosedOnExit == sock = "open" => SocketInUse

C5_Witness ==
    /\ pc = "L127"
    /\ sock = "closed"
    /\ m_hostname = OrdinaryHost
    /\ m_local_ip = NA

\* C6: send_to_webhook makes exactly one POST and never another; whatever
\* the outcome of the POST, nothing is raised, nothing is written to stdout
\* or stderr, and the program exits with status 0 as it does on success.
C6_WebhookSilentSingleAttempt ==
    /\ [][pc = "L178" =>
             /\ posts' = posts + 1
             /\ pc' = "L182"
             /\ exc' = "none"
             /\ stderr' = 0
             /\ console' = console
             /\ terminal_output' = terminal_output]_vars
    /\ [][pc # "L178" => posts' = posts]_vars
    /\ [](post_outcome # "none" => (pc \in {"L182", "done"} /\ exit_status \in {"running", "0"}))
    /\ [](pc = "done" => (exit_status = "0" /\ posts = 1))

C6_Witness ==
    /\ pc = "done"
    /\ post_outcome = "MissingSchema"
    /\ posts = 1

\* C7: get_geolocation returns "N/A (Invalid response from location
\* service)" for every fetched body that is not a valid JSON object, and
\* "N/A (Location Lookup Failed)" when the fetch failed.
C7_UnparseableGivesInvalidResponse ==
    /\ ~(pc \in {"uncaught", "crashed"} /\ raised_in = "get_geolocation")
    /\ (pc = "L141" /\ location_data.ok /\ JsonLoads(location_data.body).type # "dict")
          => geolocation = InvalidResponse
    /\ (pc = "L141" /\ ~location_data.ok) => geolocation = LookupFailed

\* C8: for a response that is a JSON object, get_geolocation returns
\* "<city>, <region>, <country>", each field taken from the response when
\* present and replaced by its own "Unknown ..." placeholder when absent,
\* independently of the other two.
C8_LocationFormat ==
    \A S \in SUBSET Fields :
        (pc = "L141" /\ location_data.ok /\ Strip(location_data.body) = ObjBody(S)) =>
            geolocation = << IF "city" \in S THEN "Paris" ELSE "Unknown City", ", ",
                             IF "region" \in S THEN "Ile-de-France" ELSE "Unknown Region", ", ",
                             IF "country" \in S THEN "FR" ELSE "Unknown Country" >>

C8_Witness ==
    /\ pc = "L141"
    /\ location_data = Some(<<"{", "city", "country", "}">>)
    /\ geolocation = <<"Paris", ", ", "Unknown Region", ", ", "FR">>

\* t is b without the whitespace around it
IsTrimOf(t, b) ==
    /\ \E i, j \in 0..Len(b) : b = Pad(i) \o t \o Pad(j)
    /\ t # <<>> => (t[1] \notin Whitespace /\ t[Len(t)] \notin Whitespace)

\* C9 as claimed: get_public_ip returns the sentinel exactly when the fetch
\* failed, and every fetched body trimmed.
C9_SentinelExactlyOnFetchFailure ==
    pc = "L134" =>
        /\ (public_ip = ConnectionFailed) <=> ~ip_data.ok
        /\ ip_data.ok => IsTrimOf(public_ip, ip_data.body)

\* C9 (amended): get_public_ip returns the sentinel "N/A (Connection Failed)"
\* whenever the fetch failed or the fetched body is empty, and every
\* non-empty fetched body with the whitespace around it trimmed.
C9_SentinelOnFailureOrEmptyBody ==
    pc = "L134" =>
        /\ (~ip_data.ok \/ ip_data.body = <<>>) => public_ip = ConnectionFailed
        /\ (ip_data.ok /\ ip_data.body # <<>>) => IsTrimOf(public_ip, ip_data.body)

C9_Witness ==
    /\ pc = "L134"
    /\ ip_data = Some(<<"203.0.113.5", "\n">>)
    /\ public_ip = <<"203.0.113.5">>

\* r is the text one complete main() prints
IsReport(r) ==
    /\ Len(r) = Len(Header) + 5 + Len(Footer)
    /\ SubSeq(r, 1, Len(Header)) = Header
    /\ r[Len(Header) + 1][1] = "Desktop Name (Hostname): "
    /\ r[Len(Header) + 2][1] = "Local IP Address (LAN):  "
    /\ r[Len(Header) + 4][1] = "Public IP Address (WAN): "
    /\ SubSeq(r[Len(Header) + 5], 1, 1) \in
           {<<"Estimated Location:      ">>,
            <<"Estimated Location:      N/A (Failed to retrieve Public IP)">>}
    /\ SubSeq(r, Len(r) - Len(Footer) + 1, Len(r)) = Footer

TwoReports(buf) ==
    /\ Len(buf) % 2 = 0
    /\ IsReport(SubSeq(buf, 1, Len(buf) \div 2))
    /\ IsReport(SubSeq(buf, Len(buf) \div 2 + 1, Len(buf)))

\* C10: run as the entry point, the program invokes main exactly twice
\* before the capture is stopped, so that every probe and lookup is done
\* twice and the buffer holds two reports, and it calls the webhook notifier
\* exactly once, after both invocations and after stdout was restored, with
\* the whole buffer as its text.
C10_TwoRunsOneWebhookCall ==
    name_main =>
        /\ sys_stdout = "console" =>
              /\ main_calls = 2 /\ probes = 2 /\ lookups = 2
              /\ TwoReports(terminal_output)
        /\ posts > 0 =>
              /\ posts = 1
              /\ sys_stdout = "console"
              /\ webhook_text = terminal_output
        /\ exit_status # "running" => (main_calls = 2 /\ posts = 1)

====
